---- MODULE Spec2Model ----
(***************************************************************************)
(* Dispatch center of the drone-noise simulation                           *)
(* (src/src/dispatchCenter/center.py): the tick-driven control loop        *)
(* Center.run, the matcher process_orders, the plan-dispatch step          *)
(* plan_drones_path and the lifecycle pass update_drones, over the three   *)
(* drone lists free_drones, waiting_planning_drones and delivering_drones. *)
(***************************************************************************)
EXTENDS Integers, Sequences, FiniteSets, TLC

(* ---------------- bounds of the model ---------------- *)
MaxDrones == 2
MaxOrders == 2
MaxPath == 2
MaxReplan == 1
GridMax == 1
MaxLead == 2

(* ---------------- program constants ---------------- *)
CENTER_PER_SLICE_TIME == 1
\* the optional collaborators are switched on
USE_NOISE_TRACKER == TRUE
USE_DENSITY_MATRIX == TRUE
PLOT_SIMULATION == TRUE

(* the clock is followed long enough for every accepted order to finish *)
MaxTicks == MaxOrders * MaxPath + MaxReplan * MaxPath + 2
MaxTime == CENTER_PER_SLICE_TIME * MaxTicks

Drones == 1..MaxDrones
OrderIds == 1..MaxOrders
\* the city is a street of GridMax + 1 points with a warehouse at each end
Coords == 0..GridMax
Warehouses == {0, GridMax}
\* the generated order that starts at point a is delivered to the mirror point
GeneratedOrder(a) == [origin |-> a, dest |-> GridMax - a]
NoOrder == 0
NoDrone == 0

VARIABLES
    pc,                       \* position of run(): poll, process, plan, update, track, check, halted, crashed
    now,                      \* time.time() - origin_time
    iteration_count,
    waiting_orders,           \* Queue of order ids
    free_drones,
    delivering_drones,
    waiting_planning_drones,
    drone,                    \* per drone: location, destination, status, need_planning, order, steps
    orders,                   \* per order: origin and dest coordinates
    fleet,                    \* drones created by init_drones
    pushed,                   \* orders in the order init_orders pushed them
    popped,                   \* orders in the order process_orders popped them
    replans,                  \* number of times an update() asked for re-planning
    pre,                      \* the lists as they were when the last step started
    matchLog,                 \* assignments of the last process_orders call
    planned,                  \* drones that received a path in the last plan_drones_path call
    completed,                \* drones whose update() ended WAITING in the last update_drones call
    plannerFailed,            \* drones for which the planner raised
    delivered,                \* orders whose drone completed them
    events,                   \* the calls made so far in the current tick, in order
    askedAt                   \* per drone: the tick whose update_drones sent it back to planning, or 0

vars == <<pc, now, iteration_count, waiting_orders, free_drones, delivering_drones,
          waiting_planning_drones, drone, orders, fleet, pushed, popped, replans,
          pre, matchLog, planned, completed, plannerFailed, delivered, events,
          askedAt>>

(* ---------------- sequences as python lists ---------------- *)
ToSet(s) == {s[i] : i \in 1..Len(s)}
InList(x, s) == \E i \in 1..Len(s) : s[i] = x
Count(x, s) == Cardinality({i \in 1..Len(s) : s[i] = x})
NoDup(s) == \A i, j \in 1..Len(s) : s[i] = s[j] => i = j
Min(a, b) == IF a < b THEN a ELSE b

\* list.remove(x): drops the first occurrence
ListRemove(s, x) ==
    LET i == CHOOSE k \in 1..Len(s) : s[k] = x /\ \A j \in 1..(k - 1) : s[j] # x
    IN  SubSeq(s, 1, i - 1) \o SubSeq(s, i + 1, Len(s))

\* commons.my_util.difference(a, b): the elements of a that are not in b
difference(a, b) == SelectSeq(a, LAMBDA x : ~InList(x, b))

(* ---------------- geometry ---------------- *)
Distance(a, b) == IF a >= b THEN a - b ELSE b - a

\* commons.my_util.nearest_free_drone: the first drone of the list at minimal distance
nearest_free_drone(order, free) ==
    LET dist(i) == Distance(drone[free[i]].location, orders[order].origin)
        best == CHOOSE i \in 1..Len(free) :
                    /\ \A j \in 1..Len(free) : dist(i) <= dist(j)
                    /\ \A j \in 1..(i - 1) : dist(j) > dist(i)
    IN  free[best]

(* ---------------- the order queue ---------------- *)
QueuePush(q, o) == Append(q, o)
QueuePopped(q) == Head(q)
QueueRest(q) == Tail(q)
isEmpty(q) == Len(q) = 0

(* ---------------- predicates of Center ---------------- *)
has_free_drone == Len(free_drones) > 0
has_working_drone == Len(delivering_drones) > 0
has_waiting_order == ~isEmpty(waiting_orders)
has_planning_drone == Len(waiting_planning_drones) > 0

(* ---------------- the drone ---------------- *)
NewDrone(w) == [location |-> w, destination |-> w, status |-> "WAITING",
                need_planning |-> FALSE, order |-> NoOrder, steps |-> 0]

accept_order(d, o) == [d EXCEPT !.order = o, !.destination = orders[o].dest,
                                !.status = "ASSIGNED", !.need_planning = TRUE]

receive_path(d, n) == [d EXCEPT !.steps = n, !.need_planning = FALSE,
                                !.status = "DELIVERING"]

\* update(): one step along the path; the order completes when the path is exhausted
DroneUpdate(d, replan) ==
    IF d.steps <= 1
    THEN [d EXCEPT !.steps = 0, !.location = d.destination, !.status = "WAITING",
                   !.order = NoOrder]
    ELSE [d EXCEPT !.steps = d.steps - 1, !.need_planning = replan]

Snapshot == [queue |-> waiting_orders, free |-> free_drones,
             wp |-> waiting_planning_drones, deliv |-> delivering_drones]

(* ---------------- construction ---------------- *)
\* init_orders pushes the generated orders one by one
RECURSIVE init_orders(_, _)
init_orders(q, os) == IF os = <<>> THEN q ELSE init_orders(QueuePush(q, Head(os)), Tail(os))

\* Center.__init__ with num_drones = nd drones placed at the warehouses wh and the
\* generated orders od
Construct(Whs, Origins) ==
    \E nd \in 0..MaxDrones, no \in 0..MaxOrders :
    \E wh \in [1..nd -> Whs], od \in [1..no -> {GeneratedOrder(a) : a \in Origins}] :
        /\ pc = "poll"
        /\ now = 0
        /\ iteration_count = 0
        /\ fleet = 1..nd
        /\ free_drones = [i \in 1..nd |-> i]
        /\ delivering_drones = <<>>
        /\ waiting_planning_drones = <<>>
        /\ drone = [d \in Drones |-> IF d <= nd THEN NewDrone(wh[d]) ELSE NewDrone(0)]
        /\ orders = [o \in OrderIds |-> IF o <= no THEN od[o]
                                                   ELSE GeneratedOrder(0)]
        /\ pushed = [i \in 1..no |-> i]
        /\ waiting_orders = init_orders(<<>>, [i \in 1..no |-> i])
        /\ popped = <<>>
        /\ replans = 0
        /\ pre = [queue |-> [i \in 1..no |-> i], free |-> [i \in 1..nd |-> i],
                  wp |-> <<>>, deliv |-> <<>>]
        /\ matchLog = <<>>
        /\ planned = {}
        /\ completed = {}
        /\ plannerFailed = {}
        /\ delivered = {}
        /\ events = <<>>
        /\ askedAt = [d \in Drones |-> 0]

Init == Construct(Warehouses, Coords)

\* the scenario with one warehouse and every order starting at the far end of the street
InitLive == Construct({0}, {GridMax})

(* ---------------- process_orders ---------------- *)
\* process_orders that never appends the chosen drone to waiting_planning_drones
RECURSIVE ProcessLoopNoAppend(_, _, _, _)
ProcessLoopNoAppend(q, free, wp, log) ==
    IF ~isEmpty(q) /\ Len(free) > 0
    THEN LET order == QueuePopped(q)
             d == nearest_free_drone(order, free)
         IN  ProcessLoopNoAppend(QueueRest(q), ListRemove(free, d), wp,
                                 Append(log, [order |-> order, drone |-> d, free |-> free, qlen |-> Len(q)]))
    ELSE [queue |-> q, free |-> free, wp |-> wp, log |-> log]

\* process_orders that takes the most recent order of the queue
RECURSIVE ProcessLoopLifo(_, _, _, _)
ProcessLoopLifo(q, free, wp, log) ==
    IF ~isEmpty(q) /\ Len(free) > 0
    THEN LET order == q[Len(q)]
             d == nearest_free_drone(order, free)
         IN  ProcessLoopLifo(SubSeq(q, 1, Len(q) - 1), ListRemove(free, d), Append(wp, d),
                             Append(log, [order |-> order, drone |-> d, free |-> free, qlen |-> Len(q)]))
    ELSE [queue |-> q, free |-> free, wp |-> wp, log |-> log]

\* process_orders that takes the first free drone instead of the nearest
RECURSIVE ProcessLoopFirst(_, _, _, _)
ProcessLoopFirst(q, free, wp, log) ==
    IF ~isEmpty(q) /\ Len(free) > 0
    THEN LET order == QueuePopped(q)
             d == free[1]
         IN  ProcessLoopFirst(QueueRest(q), ListRemove(free, d), Append(wp, d),
                              Append(log, [order |-> order, drone |-> d, free |-> free, qlen |-> Len(q)]))
    ELSE [queue |-> q, free |-> free, wp |-> wp, log |-> log]

\* process_orders with an if in place of the while
ProcessLoopOnce(q, free, wp, log) ==
    IF ~isEmpty(q) /\ Len(free) > 0
    THEN LET order == QueuePopped(q)
             d == nearest_free_drone(order, free)
         IN  [queue |-> QueueRest(q), free |-> ListRemove(free, d), wp |-> Append(wp, d),
              log |-> Append(log, [order |-> order, drone |-> d, free |-> free, qlen |-> Len(q)])]
    ELSE [queue |-> q, free |-> free, wp |-> wp, log |-> log]

\* process_orders that reads the head of the queue without removing it
RECURSIVE ProcessLoopNoPop(_, _, _, _)
ProcessLoopNoPop(q, free, wp, log) ==
    IF ~isEmpty(q) /\ Len(free) > 0
    THEN LET order == QueuePopped(q)
             d == nearest_free_drone(order, free)
         IN  ProcessLoopNoPop(q, ListRemove(free, d), Append(wp, d),
                              Append(log, [order |-> order, drone |-> d, free |-> free,
                                           qlen |-> Len(q)]))
    ELSE [queue |-> q, free |-> free, wp |-> wp, log |-> log]

\* process_orders whose loop tests only has_free_drone: with a free drone left it pops
\* the empty queue, which raises EmptyQueueError and ends the loop
RECURSIVE ProcessLoopUnguarded(_, _, _, _)
ProcessLoopUnguarded(q, free, wp, log) ==
    IF Len(free) > 0
    THEN IF isEmpty(q)
         THEN [queue |-> q, free |-> free, wp |-> wp,
               log |-> Append(log, [order |-> NoOrder, drone |-> NoDrone, free |-> free,
                                    qlen |-> Len(q)])]
         ELSE LET order == QueuePopped(q)
                  d == nearest_free_drone(order, free)
              IN  ProcessLoopUnguarded(QueueRest(q), ListRemove(free, d), Append(wp, d),
                                       Append(log, [order |-> order, drone |-> d,
                                                    free |-> free, qlen |-> Len(q)]))
    ELSE [queue |-> q, free |-> free, wp |-> wp, log |-> log]

\* the while loop of process_orders: q, free, wp are the lists, log the assignments made
RECURSIVE ProcessLoop(_, _, _, _)
ProcessLoop(q, free, wp, log) ==
    IF ~isEmpty(q) /\ Len(free) > 0
    THEN LET order == QueuePopped(q)
             d == nearest_free_drone(order, free)
         IN  ProcessLoop(QueueRest(q), ListRemove(free, d), Append(wp, d),
                         Append(log, [order |-> order, drone |-> d, free |-> free, qlen |-> Len(q)]))
    ELSE [queue |-> q, free |-> free, wp |-> wp, log |-> log]

\* the order a drone was given by the assignments in log (NoOrder when none)
AssignedIn(log, d) ==
    IF \E i \in 1..Len(log) : log[i].drone = d
    THEN log[CHOOSE i \in 1..Len(log) :
                 log[i].drone = d /\ \A j \in (i + 1)..Len(log) : log[j].drone # d].order
    ELSE NoOrder

ProcessOrders ==
    /\ pc = "process"
    /\ LET r == ProcessLoop(waiting_orders, free_drones, waiting_planning_drones, <<>>)
       IN  /\ waiting_orders' = r.queue
           /\ free_drones' = r.free
           /\ waiting_planning_drones' = r.wp
           /\ matchLog' = r.log
           /\ popped' = popped \o [i \in 1..Len(r.log) |-> r.log[i].order]
           /\ drone' = [d \in Drones |->
                            IF AssignedIn(r.log, d) # NoOrder
                            THEN accept_order(drone[d], AssignedIn(r.log, d))
                            ELSE drone[d]]
           /\ events' = events \o [i \in 1..Len(r.log) |->
                                          [call |-> "assign", drone |-> r.log[i].drone]]
    /\ pre' = Snapshot
    /\ pc' = "plan"
    /\ UNCHANGED <<now, iteration_count, delivering_drones, orders, fleet, pushed,
                   replans, planned, completed, plannerFailed, delivered, askedAt>>

(* ---------------- plan_drones_path ---------------- *)
\* plan_drones_path without the membership test of line 59
RECURSIVE PlanLoopAlways(_, _, _)
PlanLoopAlways(wp, n, deliv) ==
    IF n = 0 THEN deliv ELSE Append(PlanLoopAlways(wp, n - 1, deliv), wp[n])

\* plan_drones_path that never appends to delivering_drones
PlanLoopNoAppend(wp, n, deliv) == deliv

\* the for loop of plan_drones_path over the drones wp[1..n]: the delivering list it builds
RECURSIVE PlanLoop(_, _, _)
PlanLoop(wp, n, deliv) ==
    IF n = 0 THEN deliv
    ELSE LET before == PlanLoop(wp, n - 1, deliv)
         IN  IF InList(wp[n], before) THEN before ELSE Append(before, wp[n])

\* plan_drones_path without the refresh of line 62
PlanRefreshKeep(wp, deliv) == wp

\* lines 53-56: the planner calls made for the first n drones of the list
PlanEvents(wp, n) == [i \in 1..n |-> [call |-> "plan", drone |-> wp[i]]]

\* line 62: the list of drones still waiting for a path
PlanRefresh(wp, deliv) == difference(wp, deliv)

\* the planner returns a path for every drone of the list
PlanDronesPath ==
    /\ pc = "plan"
    /\ \E len \in [ToSet(waiting_planning_drones) -> 1..MaxPath] :
          /\ drone' = [d \in Drones |->
                           IF InList(d, waiting_planning_drones)
                           THEN receive_path(drone[d], len[d]) ELSE drone[d]]
          /\ delivering_drones' = PlanLoop(waiting_planning_drones,
                                           Len(waiting_planning_drones), delivering_drones)
          /\ waiting_planning_drones' = PlanRefresh(waiting_planning_drones, delivering_drones')
          /\ planned' = ToSet(waiting_planning_drones)
    /\ events' = events \o PlanEvents(waiting_planning_drones, Len(waiting_planning_drones))
    /\ askedAt' = [d \in Drones |-> IF InList(d, waiting_planning_drones) THEN 0 ELSE askedAt[d]]
    /\ pre' = Snapshot
    /\ pc' = "update"
    /\ UNCHANGED <<now, iteration_count, waiting_orders, free_drones, orders, fleet,
                   pushed, popped, replans, matchLog, completed, plannerFailed, delivered>>

\* the planner raises for the k-th drone of the list: nothing catches the exception,
\* it leaves plan_drones_path and run()
PlanDronesPathRaises ==
    /\ pc = "plan"
    /\ \E k \in 1..Len(waiting_planning_drones) :
       \E len \in [{waiting_planning_drones[i] : i \in 1..(k - 1)} -> 1..MaxPath] :
          /\ drone' = [d \in Drones |->
                           IF d \in DOMAIN len THEN receive_path(drone[d], len[d]) ELSE drone[d]]
          /\ delivering_drones' = PlanLoop(waiting_planning_drones, k - 1, delivering_drones)
          /\ planned' = DOMAIN len
          /\ plannerFailed' = {waiting_planning_drones[k]}
          /\ events' = events \o PlanEvents(waiting_planning_drones, k)
    /\ pre' = Snapshot
    /\ pc' = "crashed"
    /\ UNCHANGED <<now, iteration_count, waiting_orders, free_drones,
                   waiting_planning_drones, orders, fleet, pushed, popped, replans,
                   matchLog, completed, delivered, askedAt>>

(* ---------------- update_drones ---------------- *)
\* update_drones without the append of line 77
FreedDronesNone(deliv, dr) == <<>>

\* lines 76-77: the drones the loop appends to free_drones, dr the drones after update()
FreedDrones(deliv, dr) == SelectSeq(deliv, LAMBDA d : dr[d].status = "WAITING")

\* update_drones without the filter of line 78
RemoveFreedKeep(deliv, free) == deliv

\* line 78: the delivering list without the drones that are now free
RemoveFreed(deliv, free) == SelectSeq(deliv, LAMBDA x : ~InList(x, free))

\* update_drones that sends every delivering drone back to planning
ReplanListAll(deliv, dr) == deliv

\* update_drones without the extension of line 81
ReplanListNone(deliv, dr) == <<>>

\* line 81: the delivering drones that ask for a new path
ReplanList(deliv, dr) == SelectSeq(deliv, LAMBDA x : dr[x].need_planning = TRUE)

\* update_drones that calls the noise tracker for a drone before the drone's update()
RECURSIVE UpdateEventsNoiseFirst(_)
UpdateEventsNoiseFirst(deliv) ==
    IF deliv = <<>> THEN <<>>
    ELSE (IF USE_NOISE_TRACKER THEN <<[call |-> "noise_track", drone |-> Head(deliv)]>>
                               ELSE <<>>)
         \o <<[call |-> "update", drone |-> Head(deliv)]>>
         \o UpdateEventsNoiseFirst(Tail(deliv))

\* lines 72-75: update() of each delivering drone, followed by the noise tracker's
\* track_noise for that drone
RECURSIVE UpdateEvents(_)
UpdateEvents(deliv) ==
    IF deliv = <<>> THEN <<>>
    ELSE <<[call |-> "update", drone |-> Head(deliv)]>>
         \o (IF USE_NOISE_TRACKER THEN <<[call |-> "noise_track", drone |-> Head(deliv)]>>
                                  ELSE <<>>)
         \o UpdateEvents(Tail(deliv))

UpdateDrones ==
    /\ pc = "update"
    /\ \E R \in SUBSET {d \in ToSet(delivering_drones) : drone[d].steps > 1} :
          /\ replans + Cardinality(R) <= MaxReplan
          /\ replans' = replans + Cardinality(R)
          /\ drone' = [d \in Drones |->
                           IF InList(d, delivering_drones)
                           THEN DroneUpdate(drone[d], d \in R) ELSE drone[d]]
    /\ free_drones' = free_drones \o FreedDrones(delivering_drones, drone')
    /\ delivering_drones' = RemoveFreed(delivering_drones, free_drones')
    /\ waiting_planning_drones' = waiting_planning_drones \o ReplanList(delivering_drones', drone')
    /\ completed' = {d \in ToSet(delivering_drones) : drone'[d].status = "WAITING"}
    /\ delivered' = delivered \cup {drone[d].order : d \in completed'}
    /\ events' = events \o UpdateEvents(delivering_drones)
                        \o (IF USE_NOISE_TRACKER
                            THEN <<[call |-> "noise_time", drone |-> NoDrone]>> ELSE <<>>)
    /\ askedAt' = [d \in Drones |->
                        IF InList(d, ReplanList(delivering_drones', drone'))
                        THEN iteration_count ELSE askedAt[d]]
    /\ pre' = Snapshot
    /\ pc' = "track"
    /\ UNCHANGED <<now, iteration_count, waiting_orders, orders, fleet, pushed, popped,
                   matchLog, planned, plannerFailed>>

(* ---------------- run ---------------- *)
\* lines 97-100: the density matrix and the plotter read delivering_drones
TrackerEvents ==
    (IF USE_DENSITY_MATRIX THEN <<[call |-> "matrix_track", drone |-> NoDrone]>> ELSE <<>>)
    \o (IF PLOT_SIMULATION THEN <<[call |-> "store_plot", drone |-> NoDrone]>> ELSE <<>>)

Track ==
    /\ pc = "track"
    /\ events' = events \o TrackerEvents
    /\ pc' = "check"
    /\ UNCHANGED <<now, iteration_count, waiting_orders, free_drones, delivering_drones,
                   waiting_planning_drones, drone, orders, fleet, pushed, popped, replans,
                   pre, matchLog, planned, completed, plannerFailed, delivered, askedAt>>

\* the wall clock moves on between two polls; it is followed up to MaxLead units past
\* the boundary the loop is waiting for
Advance ==
    /\ pc = "poll"
    /\ now < MaxTime
    /\ now < iteration_count * CENTER_PER_SLICE_TIME + MaxLead
    /\ now' = now + 1
    /\ UNCHANGED <<pc, iteration_count, waiting_orders, free_drones, delivering_drones,
                   waiting_planning_drones, drone, orders, fleet, pushed, popped, replans,
                   pre, matchLog, planned, completed, plannerFailed, delivered, events, askedAt>>

next_iteration_time == iteration_count * CENTER_PER_SLICE_TIME

\* the test of the wall clock with >= in place of >
BoundaryPassedOrEqual == now >= next_iteration_time

\* line 91: the test of the wall clock against the boundary
BoundaryPassed == now > next_iteration_time

\* the gate of the core step testing only the order queue
HasWorkQueueOnly == has_waiting_order

\* line 93: the gate of the core step
HasWork == has_waiting_order \/ has_working_drone

\* a poll that finds the boundary passed starts a tick
Poll ==
    /\ pc = "poll"
    /\ BoundaryPassed
    /\ iteration_count' = iteration_count + 1
    /\ pc' = IF HasWork THEN "process" ELSE "check"
    /\ events' = <<>>
    /\ UNCHANGED <<now, waiting_orders, free_drones, delivering_drones,
                   waiting_planning_drones, drone, orders, fleet, pushed, popped, replans,
                   pre, matchLog, planned, completed, plannerFailed, delivered, askedAt>>

\* the termination predicate without the test of delivering_drones
TerminatedNoWorking == has_waiting_order = FALSE /\ has_planning_drone = FALSE

\* the termination predicate testing free_drones in place of delivering_drones
TerminatedNoFree ==
    has_waiting_order = FALSE /\ has_free_drone = FALSE /\ has_planning_drone = FALSE

\* the termination predicate without the test of the order queue
TerminatedNoQueue == has_working_drone = FALSE /\ has_planning_drone = FALSE

\* lines 101-103: the termination predicate
Terminated ==
    has_waiting_order = FALSE /\ has_working_drone = FALSE /\ has_planning_drone = FALSE

\* the termination test at the end of a tick
CheckTermination ==
    /\ pc = "check"
    /\ pc' = IF Terminated THEN "halted" ELSE "poll"
    /\ UNCHANGED <<now, iteration_count, waiting_orders, free_drones, delivering_drones,
                   waiting_planning_drones, drone, orders, fleet, pushed, popped, replans,
                   pre, matchLog, planned, completed, plannerFailed, delivered, events, askedAt>>

Next ==
    \/ Advance
    \/ Poll
    \/ ProcessOrders
    \/ PlanDronesPath
    \/ PlanDronesPathRaises
    \/ UpdateDrones
    \/ Track
    \/ CheckTermination

Spec == Init /\ [][Next]_vars

\* one step of the thread that executes run(), the planner returning a path
RunStep ==
    \/ Poll
    \/ ProcessOrders
    \/ PlanDronesPath
    \/ UpdateDrones
    \/ Track
    \/ CheckTermination

NextLive ==
    \/ Advance
    \/ RunStep

\* the run in which the planner always returns a path, the wall clock keeps advancing
\* and the thread of run() keeps executing
LiveSpec ==
    /\ InitLive
    /\ [][NextLive]_vars
    /\ WF_vars(Advance)
    /\ WF_vars(RunStep)

(* ======================= properties ======================= *)
InFree(d) == InList(d, free_drones)
InPlanning(d) == InList(d, waiting_planning_drones)
InDelivering(d) == InList(d, delivering_drones)
EndOfTick == pc = "check"
AllEmpty == waiting_orders = <<>> /\ delivering_drones = <<>> /\ waiting_planning_drones = <<>>
AllFree == ToSet(free_drones) = fleet /\ delivering_drones = <<>> /\ waiting_planning_drones = <<>>

\* C1 as stated: at the end of every tick no drone is a member of more than one of
\* free_drones, waiting_planning_drones and delivering_drones, also when a delivering
\* drone's need_planning flag is true when update_drones finishes.
C1_Disjoint ==
    EndOfTick => \A d \in Drones :
        /\ ~(InFree(d) /\ InPlanning(d))
        /\ ~(InFree(d) /\ InDelivering(d))
        /\ ~(InPlanning(d) /\ InDelivering(d))

\* C1 amended: at the end of every tick no drone of free_drones is in another list, and
\* a drone is in waiting_planning_drones exactly when it is in delivering_drones with
\* its need_planning flag true (such a drone is in both lists).
C1_DisjointButReplanning ==
    EndOfTick => \A d \in Drones :
        /\ ~(InFree(d) /\ InPlanning(d))
        /\ ~(InFree(d) /\ InDelivering(d))
        /\ InPlanning(d) <=> (InDelivering(d) /\ drone[d].need_planning)

C1_Witness ==
    /\ EndOfTick
    /\ \E d \in Drones : InPlanning(d) /\ InDelivering(d)
    /\ \E d \in Drones : InDelivering(d) /\ ~InPlanning(d)

\* C2: at the end of every tick the union of free_drones, waiting_planning_drones and
\* delivering_drones is the set of drones init_drones created: no drone is dropped
\* from all three lists and none appears that was not in the initial fleet.
C2_FleetConserved ==
    EndOfTick =>
        ToSet(free_drones) \cup ToSet(waiting_planning_drones) \cup ToSet(delivering_drones)
            = fleet

C2_Witness ==
    /\ EndOfTick
    /\ free_drones # <<>>
    /\ delivering_drones # <<>>
    /\ waiting_planning_drones # <<>>

\* C3: the loop halts at the termination test if and only if the order queue,
\* delivering_drones and waiting_planning_drones are all empty when the test is
\* evaluated; it never halts while one of them is non-empty and never goes on to
\* another tick when all three are empty.
C3_Termination ==
    [][ /\ (pc = "check" => (pc' = "halted" <=> AllEmpty))
        /\ (pc' = "halted" /\ pc # "halted" => pc = "check" /\ AllEmpty)
        /\ (pc = "check" /\ AllEmpty => pc' # "poll") ]_vars

C3_Witness == pc = "halted" /\ popped # <<>> /\ iteration_count >= 2

\* C4: with a fleet of at least one drone, a clock that keeps advancing, a planner that
\* always returns a path and updates that complete, run() eventually has every drone
\* back in free_drones and has halted; with a non-empty queue and an empty fleet it
\* never halts.
C4_Quiescence ==
    /\ <>(fleet = {} \/ (pc = "halted" /\ AllFree))
    /\ [](fleet = {} /\ pushed # <<>> => pc # "halted")

C4_Witness ==
    /\ pc = "halted"
    /\ AllFree
    /\ fleet # {}
    /\ Len(popped) >= 2
    /\ replans > 0

\* C5: orders are popped and assigned in exactly the order init_orders pushed them,
\* across all ticks: the popped orders are a prefix of the pushed ones and the queue
\* holds the rest.
C5_Fifo ==
    /\ Len(popped) <= Len(pushed)
    /\ \A i \in 1..Len(popped) : popped[i] = pushed[i]
    /\ waiting_orders = SubSeq(pushed, Len(popped) + 1, Len(pushed))
    /\ pc = "plan" =>
           \A i \in 1..Len(matchLog) :
               /\ matchLog[i].order = popped[Len(popped) - Len(matchLog) + i]
               /\ drone[matchLog[i].drone].order = matchLog[i].order

C5_Witness == Len(popped) >= 2 /\ Len(matchLog) = 1 /\ pc = "plan"

\* C6: every drone process_orders chooses for a popped order is in free_drones at that
\* moment, and no drone of free_drones at that moment is strictly nearer to the
\* order's origin.
C6_Minimality ==
    pc = "plan" =>
        \A i \in 1..Len(matchLog) :
            LET e == matchLog[i]
                dist(d) == Distance(drone[d].location, orders[e.order].origin)
            IN  /\ InList(e.drone, e.free)
                /\ ToSet(e.free) = ToSet(pre.free) \ {matchLog[j].drone : j \in 1..(i - 1)}
                /\ \A j \in 1..Len(e.free) : dist(e.free[j]) >= dist(e.drone)

C6_Witness ==
    /\ pc = "plan"
    /\ \E i \in 1..Len(matchLog) :
           /\ Len(matchLog[i].free) >= 2
           /\ matchLog[i].drone # matchLog[i].free[1]

\* C7: a process_orders call started with q queued orders and f free drones makes
\* exactly min(q, f) assignments and returns with the queue or free_drones empty; the
\* unmatched orders stay queued in their order, and with f = 0 the queue and the
\* three lists are unchanged.
C7_StopCondition ==
    pc = "plan" =>
        LET q == Len(pre.queue)
            f == Len(pre.free)
            m == Min(q, f)
        IN  /\ Len(matchLog) = m
            /\ Len(free_drones) = f - m
            /\ Len(waiting_planning_drones) = Len(pre.wp) + m
            /\ waiting_orders = <<>> \/ free_drones = <<>>
            /\ waiting_orders = SubSeq(pre.queue, m + 1, q)
            /\ f = 0 => /\ waiting_orders = pre.queue
                        /\ free_drones = pre.free
                        /\ waiting_planning_drones = pre.wp
                        /\ delivering_drones = pre.deliv

C7_Witness ==
    /\ pc = "plan"
    /\ Len(pre.queue) >= 2
    /\ Len(pre.free) >= 2
    /\ Len(matchLog) >= 2

\* C8: after plan_drones_path returns, every drone that was in waiting_planning_drones
\* when it started is in exactly one of delivering_drones and waiting_planning_drones
\* and not in free_drones, and waiting_planning_drones holds exactly the drones that
\* received no path in this step.
C8_PlanningComplete ==
    pc = "update" =>
        /\ \A d \in ToSet(pre.wp) :
               /\ InDelivering(d) # InPlanning(d)
               /\ ~InFree(d)
        /\ ToSet(waiting_planning_drones) = ToSet(pre.wp) \ planned

C8_Witness ==
    /\ pc = "update"
    /\ \E d \in ToSet(pre.wp) : InList(d, pre.deliv) /\ Count(d, delivering_drones) = 1

\* C9: a drone whose update() completes its order during update_drones is appended to
\* free_drones exactly once and is not in delivering_drones when the call ends; no
\* drone is in free_drones more than once.
C9_LifecycleClosure ==
    /\ NoDup(free_drones)
    /\ EndOfTick =>
           \A d \in completed :
               /\ Count(d, pre.free) = 0
               /\ Count(d, free_drones) = 1
               /\ ~InDelivering(d)

C9_Witness == EndOfTick /\ completed # {} /\ delivering_drones # <<>>

\* C10 as stated: when the planner fails for one drone during plan_drones_path the loop
\* does not halt, the drone stays in waiting_planning_drones and in no other list, and
\* the other drones awaiting planning in that tick are moved to delivering_drones.
C10_PlannerFailureLocalized ==
    plannerFailed # {} =>
        /\ pc # "crashed"
        /\ \A d \in plannerFailed : InPlanning(d) /\ ~InDelivering(d) /\ ~InFree(d)
        /\ \A d \in ToSet(pre.wp) \ plannerFailed : InDelivering(d)

\* C11: in the state in which run() halts every drone of the fleet is in free_drones and
\* every order init_orders pushed has been popped, assigned and completed by its drone;
\* no order is still queued, assigned but unplanned, or in flight.
C11_NoWorkAtHalt ==
    pc = "halted" =>
        /\ AllFree
        /\ waiting_orders = <<>>
        /\ popped = pushed
        /\ delivered = ToSet(pushed)
        /\ \A d \in fleet : drone[d].order = NoOrder /\ drone[d].status = "WAITING"

C11_Witness == pc = "halted" /\ Cardinality(delivered) >= 2 /\ Cardinality(fleet) >= 2

\* C12: no order is popped twice over the whole run, so no order is assigned to two
\* drones and no two drones of waiting_planning_drones or delivering_drones hold the
\* same current order.
C12_PoppedOnce ==
    /\ NoDup(popped)
    /\ \A i, j \in 1..Len(matchLog) : matchLog[i].order = matchLog[j].order => i = j
    /\ \A d1, d2 \in Drones :
           /\ d1 # d2
           /\ InPlanning(d1) \/ InDelivering(d1)
           /\ InPlanning(d2) \/ InDelivering(d2)
           => drone[d1].order # drone[d2].order

C12_Witness ==
    /\ Len(popped) >= 2
    /\ \E d1, d2 \in Drones : d1 # d2 /\ InDelivering(d1) /\ InDelivering(d2)

\* C13: on each tick (each increment of iteration_count) the core step is executed if
\* and only if, at the start of the tick, the order queue is non-empty or some drone is
\* in waiting_planning_drones or delivering_drones; no tick skips the core step while
\* a non-free drone exists.
C13_WorkGate ==
    [][ iteration_count' = iteration_count + 1 =>
            (pc' = "process" <=>
                (\/ waiting_orders # <<>>
                 \/ waiting_planning_drones # <<>>
                 \/ delivering_drones # <<>>)) ]_vars

C13_Witness ==
    /\ pc = "process"
    /\ waiting_orders = <<>>
    /\ waiting_planning_drones # <<>>
    /\ Len(delivering_drones) > Len(waiting_planning_drones)

\* the positions of the calls of one kind in the current tick
Calls(kind) == {i \in 1..Len(events) : events[i].call = kind}
CallsOf(kind, d) == {i \in Calls(kind) : events[i].drone = d}
TrackerCalls == Calls("noise_track") \cup Calls("matrix_track") \cup Calls("store_plot")

\* C14 as stated: in every executed core step all matcher assignments happen before any
\* planner call, all planner calls before any drone update(), and every tracker call
\* (noise tracker track_noise, density matrix track_noise, plotter store_plot) happens
\* only after the last drone update() of the tick.
C14_StrictOrder ==
    EndOfTick =>
        /\ \A i \in Calls("assign"), j \in Calls("plan") : i < j
        /\ \A i \in Calls("plan"), j \in Calls("update") : i < j
        /\ \A i \in Calls("update"), j \in TrackerCalls : i < j

\* C14 amended: assignments come before planner calls and planner calls before updates;
\* the density matrix and the plotter are called after the last update(), but the noise
\* tracker's track_noise(drone) is called right after that drone's own update(), before
\* the updates of the drones that follow it in delivering_drones.
C14_OrderWithInlineNoise ==
    EndOfTick =>
        /\ \A i \in Calls("assign"), j \in Calls("plan") : i < j
        /\ \A i \in Calls("plan"), j \in Calls("update") : i < j
        /\ \A i \in Calls("update"), j \in Calls("matrix_track") \cup Calls("store_plot") : i < j
        /\ \A j \in Calls("noise_track") :
               j > 1 /\ events[j - 1] = [call |-> "update", drone |-> events[j].drone]
        /\ \A i \in Calls("update") :
               i < Len(events) /\ events[i + 1] = [call |-> "noise_track", drone |-> events[i].drone]

C14_Witness ==
    /\ EndOfTick
    /\ Calls("assign") # {}
    /\ Cardinality(Calls("update")) >= 2
    /\ Calls("store_plot") # {}

\* C15: a drone still delivering after its update() with need_planning set is put into
\* waiting_planning_drones by that update_drones call, the next tick executes the core
\* step, and the plan_drones_path of that next tick gives the drone a new path, after
\* which it is in delivering_drones and no longer in waiting_planning_drones.
C15_Replanning ==
    [][ /\ (pc = "update" /\ pc' = "track") =>
               \A d \in Drones :
                   (InList(d, delivering_drones') /\ drone'[d].need_planning) =>
                       /\ InList(d, waiting_planning_drones')
                       /\ askedAt'[d] = iteration_count
        /\ (pc = "poll" /\ waiting_planning_drones # <<>>
                /\ iteration_count' # iteration_count) => pc' = "process"
        /\ (pc = "plan" /\ pc' = "update") =>
               \A d \in Drones :
                   (InPlanning(d) /\ InDelivering(d)) =>
                       /\ iteration_count = askedAt[d] + 1
                       /\ [call |-> "plan", drone |-> d] \in ToSet(events')
                       /\ drone'[d].need_planning = FALSE
                       /\ drone'[d].steps >= 1
                       /\ Count(d, delivering_drones') = 1
                       /\ ~InList(d, waiting_planning_drones') ]_vars

C15_Witness ==
    /\ pc = "update"
    /\ iteration_count >= 2
    /\ \E d \in ToSet(pre.wp) :
           /\ InList(d, pre.deliv)
           /\ InDelivering(d)
           /\ ~InPlanning(d)
           /\ drone[d].steps >= 1

\* C16: whenever process_orders calls waiting_orders.pop() the queue holds at least one
\* order, so EmptyQueueError occurs in no run.
C16_PopGuarded ==
    \A i \in 1..Len(matchLog) :
        /\ matchLog[i].qlen >= 1
        /\ matchLog[i].order \in ToSet(pushed)

C16_Witness ==
    /\ pc = "plan"
    /\ matchLog # <<>>
    /\ matchLog[Len(matchLog)].qlen = 1
    /\ free_drones # <<>>

\* C17: iteration_count starts at 0, never decreases and changes only by +1 at a poll;
\* it goes from c to c+1 only when the wall clock is strictly past
\* origin_time + c * CENTER_PER_SLICE_TIME, and the matcher, planner and lifecycle
\* steps run only on a poll that advanced the counter.
C17_TickCounter ==
    /\ iteration_count = 0
    /\ [][ /\ \/ iteration_count' = iteration_count
               \/ /\ iteration_count' = iteration_count + 1
                  /\ pc = "poll"
                  /\ now > iteration_count * CENTER_PER_SLICE_TIME
           /\ pc' = "process" => (pc = "poll" /\ iteration_count' = iteration_count + 1)
           /\ pc' = "plan" => (pc = "process" /\ iteration_count' = iteration_count)
           /\ pc' = "update" => (pc = "plan" /\ iteration_count' = iteration_count) ]_vars

C17_Witness ==
    /\ pc = "process"
    /\ iteration_count >= 2
    /\ now = (iteration_count - 1) * CENTER_PER_SLICE_TIME + 1

\* C18: at the end of every tick waiting_planning_drones is contained in
\* delivering_drones, so the state with the queue and delivering_drones empty and
\* waiting_planning_drones non-empty is not reached, and a tick that skips the core
\* step is always the tick on which the loop halts.
PlanningWithinDelivering ==
    pc \in {"check", "poll", "halted"} =>
        /\ ToSet(waiting_planning_drones) \subseteq ToSet(delivering_drones)
        /\ ~(/\ waiting_orders = <<>>
             /\ delivering_drones = <<>>
             /\ waiting_planning_drones # <<>>)

C18_PlanningWithinDelivering ==
    /\ PlanningWithinDelivering
    /\ [][ /\ PlanningWithinDelivering'
           /\ (pc = "poll" /\ pc' = "check") => AllEmpty'
           /\ (pc = "check" /\ events = <<>>) => pc' # "poll" ]_vars

C18_Witness ==
    /\ pc = "poll"
    /\ waiting_orders = <<>>
    /\ waiting_planning_drones # <<>>
    /\ iteration_count >= 2

\* C19: in every state between steps none of free_drones, waiting_planning_drones and
\* delivering_drones holds the same drone twice; hence the planner and update() are
\* each called at most once per drone per tick.
C19_NoDuplicates ==
    /\ NoDup(free_drones)
    /\ NoDup(waiting_planning_drones)
    /\ NoDup(delivering_drones)
    /\ \A d \in Drones :
           /\ Cardinality(CallsOf("plan", d)) <= 1
           /\ Cardinality(CallsOf("update", d)) <= 1

C19_Witness ==
    /\ pc = "check"
    /\ iteration_count >= 2
    /\ replans > 0
    /\ \E d \in Drones :
           /\ Cardinality(CallsOf("plan", d)) = 1
           /\ Cardinality(CallsOf("update", d)) = 1
           /\ InDelivering(d)

\* C20: a drone that returns to free_drones during update_drones of a tick is given no
\* order before the process_orders of the next tick, even when orders are still
\* queued; a drone given an order by process_orders is planned and receives its first
\* update() in that same tick.
AfterUpdateDrones ==
    pc \in {"track", "check"} =>
        /\ \A d \in completed :
               /\ InFree(d)
               /\ ~InPlanning(d)
               /\ drone[d].order = NoOrder
        /\ \A i \in Calls("update"), j \in Calls("assign") : j < i
        /\ \A j \in Calls("assign") :
               \E p \in CallsOf("plan", events[j].drone) :
               \E u \in CallsOf("update", events[j].drone) : j < p /\ p < u

C20_AssignmentTiming ==
    /\ AfterUpdateDrones
    /\ [][ /\ AfterUpdateDrones'
           /\ (\E d \in Drones : drone[d].order = NoOrder /\ drone'[d].order # NoOrder) =>
                  /\ pc = "process"
                  /\ Calls("update") = {} ]_vars

C20_Witness ==
    /\ pc = "check"
    /\ waiting_orders # <<>>
    /\ \E d \in completed : InFree(d) /\ CallsOf("assign", d) # {}

====
